---- MODULE Spec2Model ----
(***************************************************************************)
(* Swept circle / ellipse motion against static segments (package phys)    *)
(* with the geometric kernel it uses (package geom).                       *)
(*                                                                         *)
(* float64 is modelled as signed fixed point: a number x is the integer    *)
(* x * Scale, every product, quotient and square root is rounded to the    *)
(* nearest representable value, as the IEEE operations are.  Threshold is  *)
(* the square root of the representation's epsilon, as in geom.            *)
(* Tuples are 1-based: v[1] is Go's v[0] (x), v[2] is Go's v[1] (y).       *)
(***************************************************************************)
EXTENDS Integers, Sequences, FiniteSets, TLC

\* ------------------------------------------------------------------ bounds
MaxIter == 6        \* cap on the iterations of MoveCircle's loop
MaxSegs == 2        \* longest obstacle list
MaxR    == 3        \* largest radius, in whole units
MaxV    == 2        \* largest velocity component, in whole units
MaxDrawn == 2       \* most segments drawn with the mouse in the demo

\* ------------------------------------------------------- float64 arithmetic
K == 2

\* quanta per unit: the resolution of the representation (epsilon = 1 / Scale)
Scale == 2^14

Abs(a) == IF a < 0 THEN -a ELSE a
Sgn(a) == IF a < 0 THEN -1 ELSE 1

\* n / d for n >= 0, d > 0, rounded to the nearest integer
RoundPos(n, d) == (2 * n + d) \div (2 * d)
Round(n, d) == Sgn(n) * Sgn(d) * RoundPos(Abs(n), Abs(d))

\* a * b: the product of the two magnitudes, taken limb by limb so that no
\* intermediate value exceeds the machine word, rounded once
MulPos(a, b) ==
    LET ah == a \div Scale
        al == a % Scale
        bh == b \div Scale
        bl == b % Scale
    IN  ah * bh * Scale + ah * bl + al * bh + RoundPos(al * bl, Scale)
Mul(a, b) == Sgn(a) * Sgn(b) * MulPos(Abs(a), Abs(b))

\* a / b: long division in two digits of HalfScale, rounded once
HalfScale == 2^7
DivPos(a, b) ==
    LET t1 == (a % b) * HalfScale
        t2 == (t1 % b) * HalfScale
    IN  (a \div b) * Scale + (t1 \div b) * HalfScale + RoundPos(t2, b)
Div(a, b) == Sgn(a) * Sgn(b) * DivPos(Abs(a), Abs(b))

\* a power of two that is at least the square root of n, and less than four times it
SqrtGuess(n) ==
    IF n < 2^16
    THEN IF n < 2^8
         THEN IF n < 2^4 THEN 2^2 ELSE 2^4
         ELSE IF n < 2^12 THEN 2^6 ELSE 2^8
    ELSE IF n < 2^24
         THEN IF n < 2^20 THEN 2^10 ELSE 2^12
         ELSE IF n < 2^28 THEN 2^14 ELSE 2^16

\* Newton's iteration from above: the floor of the square root of n
RECURSIVE NewtonSqrt(_, _)
NewtonSqrt(n, x) ==
    LET next == (x + n \div x) \div 2
    IN  IF next >= x THEN x ELSE NewtonSqrt(n, next)

\* the square root of the integer n, rounded to nearest
RoundRoot(n, root) == IF n - root * root > root THEN root + 1 ELSE root
IntSqrt(n) == IF n = 0 THEN 0 ELSE RoundRoot(n, NewtonSqrt(n, SqrtGuess(n)))

\* math.Sqrt: exact to the nearest value for a < 8, and for larger a one Newton step
\* from the root of the integer part, exact on squares and within one quantum
NewtonStep(a, coarse) == RoundPos(coarse + DivPos(a, coarse), 2)
Sqrt(a) == IF a < 2^17 THEN IntSqrt(a * Scale) ELSE NewtonStep(a, IntSqrt(a) * HalfScale)

\* math.Sqrt of x*x + y*y for x, y >= 0.  float64 keeps the relative precision of a
\* small sum of squares, so for short vectors the sum is formed exactly
SqrtSumSquares(x, y) ==
    IF x < 2^15 /\ y < 2^15 THEN IntSqrt(x * x + y * y)
    ELSE Sqrt(MulPos(x, x) + MulPos(y, y))

\* the square root of the epsilon of the representation, which is one quantum
Threshold == Sqrt(1)

\* the comparison without math.Abs
Float64EqualsSigned(a, b) == a - b < Threshold

Float64Equals(a, b) == Abs(a - b) < Threshold

\* ------------------------------------------------------------ points, vectors
Zero == <<0, 0>>

Plus(p, v) == <<p[1] + v[1], p[2] + v[2]>>
Minus(a, b) == <<a[1] - b[1], a[2] - b[2]>>
Times(p, v) == <<Mul(p[1], v[1]), Mul(p[2], v[2])>>
ScaledBy(v, k) == <<Mul(v[1], k), Mul(v[2], k)>>
Dot(a, b) == Mul(a[1], b[1]) + Mul(a[2], b[2])
Magnitude(v) == SqrtSumSquares(Abs(v[1]), Abs(v[2]))
DividedBy(v, m) == <<Div(v[1], m), Div(v[2], m)>>
Unit(v) == DividedBy(v, Magnitude(v))
Inverse(v) == <<-v[1], -v[2]>>
Equals(a, b) == Float64Equals(a[1], b[1]) /\ Float64Equals(a[2], b[2])
\* the comparison with the zero vector without a tolerance
NearZeroExact(v) == v = Zero

NearZero(v) == Float64Equals(v[1], 0) /\ Float64Equals(v[2], 0)

\* ------------------------------------------------------- rays, planes, spheres
\* the quotient without the change of sign
planeSectNoNegation(numer, denom) ==
    IF Float64Equals(denom, 0)
    THEN [d |-> 0, hit |-> FALSE]
    ELSE [d |-> Div(numer, denom), hit |-> TRUE]

\* the test denom == 0 without a tolerance
planeSectExactZero(numer, denom) ==
    IF denom = 0
    THEN [d |-> 0, hit |-> FALSE]
    ELSE [d |-> Div(-numer, denom), hit |-> TRUE]

\* PlaneIntersection from its numer and denom
planeSect(numer, denom) ==
    IF Float64Equals(denom, 0)
    THEN [d |-> 0, hit |-> FALSE]
    ELSE [d |-> Div(-numer, denom), hit |-> TRUE]

PlaneIntersection(r, p) ==
    LET dd == -Dot(p.Normal, p.Origin)
        numer == Dot(p.Normal, r.Origin) + dd
    IN  planeSect(numer, Dot(r.Direction, p.Normal))

\* the farther of the two intersections
sphereRootFar(vv, dd) ==
    IF dd < 0
    THEN [d |-> 0, hit |-> FALSE]
    ELSE [d |-> vv + Sqrt(dd), hit |-> TRUE]

\* SphereIntersection from v and the discriminant d
sphereRoot(vv, dd) ==
    IF dd < 0
    THEN [d |-> 0, hit |-> FALSE]
    ELSE [d |-> vv - Sqrt(dd), hit |-> TRUE]

\* SphereIntersection from c = |Q| and v = Q . Direction
sphereSect(radius, cc, vv) ==
    sphereRoot(vv, Mul(radius, radius) - (Mul(cc, cc) - Mul(vv, vv)))

SphereIntersection(r, s) ==
    sphereSect(s.Radius, Magnitude(Minus(s.Center, r.Origin)),
               Dot(Minus(s.Center, r.Origin), r.Direction))

\* the projection onto the line, whatever t
nearestAtUnclamped(s, dd, VV, tt) == Plus(s[1], ScaledBy(VV, tt))

\* NearestPoint from d = |V|, the unit V and t
nearestAt(s, dd, VV, tt) ==
    IF tt < 0 THEN s[1]
    ELSE IF tt > dd THEN s[2]
    ELSE Plus(s[1], ScaledBy(VV, tt))

\* NearestPoint from d = |V| and the unit V
nearestAlong(s, p, dd, VV) == nearestAt(s, dd, VV, Dot(VV, Minus(p, s[1])))

NearestPoint(s, p) ==
    nearestAlong(s, p, Magnitude(Minus(s[2], s[1])), Unit(Minus(s[2], s[1])))

\* the swap with the sign on the other component
TurnedBack(n) == <<n[2], -n[1]>>

\* n[0], n[1] = -n[1], n[0]
Turned(n) == <<-n[2], n[1]>>
\* the turned direction without the division by its magnitude
NormalUnscaled(s) == Turned(Minus(s[2], s[1]))

Normal(s) == Turned(Unit(Minus(s[2], s[1])))

Line(s) == [Origin |-> s[1], Normal |-> Normal(s)]

\* ------------------------------------------------------------------- phys
bottomFactor == Round(5 * Scale, 100)

\* the constant expression 1 - bottomFactor*2
bodyFactor == Round((100 - 5 * 2) * Scale, 100)

\* the point at distance sect.d along the ray r, when the ray meets the plane ahead
pointAhead(r, sect) ==
    IF ~sect.hit \/ sect.d < 0
    THEN [pt |-> Zero, hit |-> FALSE]
    ELSE [pt |-> Plus(r.Origin, ScaledBy(r.Direction, sect.d)), hit |-> TRUE]

\* circlePlaneHit for a circle that does not reach the plane yet: the point of the circle
\* nearest the plane, moved along the velocity to the plane
sweptPlaneHit(r, p) == pointAhead(r, PlaneIntersection(r, p))

\* circlePlaneHit without the case of the circle embedded in the plane
planeHitSweptOnly(c, v, p, sect) ==
    IF ~sect.hit \/ sect.d < 0
    THEN [pt |-> Zero, hit |-> FALSE]
    ELSE sweptPlaneHit([Origin |-> Plus(c.Center, ScaledBy(Inverse(p.Normal), c.Radius)),
                        Direction |-> Unit(v)], p)

\* circlePlaneHit without the test for the centre behind the plane
planeHitTwoSided(c, v, p, sect) ==
    IF ~sect.hit
    THEN [pt |-> Zero, hit |-> FALSE]
    ELSE IF sect.d <= c.Radius
    THEN [pt |-> Plus(c.Center, ScaledBy(Inverse(p.Normal), sect.d)), hit |-> TRUE]
    ELSE sweptPlaneHit([Origin |-> Plus(c.Center, ScaledBy(Inverse(p.Normal), c.Radius)),
                        Direction |-> Unit(v)], p)

\* circlePlaneHit once the distance from the centre to the plane (sect) is known
planeHitFrom(c, v, p, sect) ==
    IF ~sect.hit \/ sect.d < 0
    THEN [pt |-> Zero, hit |-> FALSE]
    ELSE IF sect.d <= c.Radius
    THEN [pt |-> Plus(c.Center, ScaledBy(Inverse(p.Normal), sect.d)), hit |-> TRUE]
    ELSE sweptPlaneHit([Origin |-> Plus(c.Center, ScaledBy(Inverse(p.Normal), c.Radius)),
                        Direction |-> Unit(v)], p)

circlePlaneHit(c, v, p) ==
    planeHitFrom(c, v, p,
                 PlaneIntersection([Origin |-> c.Center, Direction |-> Inverse(p.Normal)], p))

\* the hit accepted however far along the velocity it is
segmentHitUnbounded(v, polyHit, sect) ==
    IF ~sect.hit \/ sect.d < 0
    THEN [d |-> 0, pt |-> Zero, hit |-> FALSE]
    ELSE [d |-> sect.d, pt |-> polyHit, hit |-> TRUE]

\* the hit accepted with a negative distance too
segmentHitAnySign(v, polyHit, sect) ==
    IF ~sect.hit \/ sect.d > Magnitude(v)
    THEN [d |-> 0, pt |-> Zero, hit |-> FALSE]
    ELSE [d |-> sect.d, pt |-> polyHit, hit |-> TRUE]

\* circleSegmentHit once the ray back from polyHit has met the circle or not (sect)
segmentHitAt(v, polyHit, sect) ==
    IF ~sect.hit \/ sect.d < 0 \/ sect.d > Magnitude(v)
    THEN [d |-> 0, pt |-> Zero, hit |-> FALSE]
    ELSE [d |-> sect.d, pt |-> polyHit, hit |-> TRUE]

\* circleSegmentHit from the point of the segment nearest the plane hit
segmentHitFrom(c, v, polyHit) ==
    segmentHitAt(v, polyHit,
                 SphereIntersection([Origin |-> polyHit, Direction |-> Unit(Inverse(v))], c))

\* circleSegmentHit once the hit with the segment's line is known
segmentHitOn(c, v, s, planeHit) ==
    IF ~planeHit.hit
    THEN [d |-> 0, pt |-> Zero, hit |-> FALSE]
    ELSE segmentHitFrom(c, v, NearestPoint(s, planeHit.pt))

circleSegmentHit(c, v, s) == segmentHitOn(c, v, s, circlePlaneHit(c, v, Line(s)))

\* the comparison d <= dist in place of d < dist
CloserOrEqual(h, best) == h.hit /\ (~best.hit \/ h.d <= best.d)

\* the loop of moveCircle1 over segs[i..]; best.hit = FALSE stands for dist = +Inf
Closer(h, best) == h.hit /\ (~best.hit \/ h.d < best.d)

\* dist, hitPt after the body of the loop has seen the hit h
kept(h, best) == IF Closer(h, best) THEN h ELSE best

RECURSIVE nearestHit(_, _, _, _, _)
nearestHit(c, v, segs, i, best) ==
    IF i > Len(segs) THEN best
    ELSE nearestHit(c, v, segs, i + 1, kept(circleSegmentHit(c, v, segs[i]), best))

\* the hit distance returned without the pull-back
hitDistanceNoPullBack(dist) == dist

\* the travel distance moveCircle1 returns on a hit at distance dist
hitDistance(dist) == dist - Threshold

\* the pull-back applied to a move that hit nothing
freeDistancePulledBack(v) == Magnitude(v) - Threshold

\* the squared magnitude in place of the magnitude
freeDistanceSquared(v) == Dot(v, v)

\* the travel distance moveCircle1 returns when nothing is hit
freeDistance(v) == Magnitude(v)

\* the destination moved by the unit normal, not scaled by d
slideDestUnscaled(dest, normal, d) == Plus(dest, Unit(normal))

\* the destination moved the wrong way along the normal
slideDestAway(dest, normal, d) == Plus(dest, ScaledBy(Unit(normal), -d))

\* the destination slid onto the plane: dest moved by d along the plane's normal
slideDest(dest, normal, d) == Plus(dest, ScaledBy(Unit(normal), d))

\* the move returned once dest has been projected onto the slide plane (sect);
\* panic = TRUE stands for panic("Couldn't project to the sliding plane!")
slideMove(best, normal, dest, sect) ==
    IF ~sect.hit
    THEN [distance |-> 0, newVelocity |-> Zero, hit |-> FALSE, hitPoint |-> Zero,
          panic |-> TRUE]
    ELSE [distance |-> hitDistance(best.d),
          newVelocity |-> Minus(slideDest(dest, normal, sect.d), best.pt),
          hit |-> TRUE, hitPoint |-> best.pt, panic |-> FALSE]

\* the projection ray cast across the slide plane's normal
slideFromAcross(best, slide, dest) ==
    slideMove(best, slide.Normal, dest,
              PlaneIntersection([Origin |-> dest, Direction |-> Turned(slide.Normal)], slide))

\* the part of moveCircle1 after slide and dest are known
slideFrom(best, slide, dest) ==
    slideMove(best, slide.Normal, dest,
              PlaneIntersection([Origin |-> dest, Direction |-> slide.Normal], slide))

\* dest taken the whole magnitude of the velocity beyond the contact point
slideAlongWhole(c, v, best, vUnit) ==
    slideFrom(best,
              [Origin |-> best.pt,
               Normal |-> Unit(Minus(best.pt, Plus(c.Center, ScaledBy(vUnit, best.d))))],
              Plus(best.pt, ScaledBy(vUnit, Magnitude(v))))

\* the part of moveCircle1 after vUnit := v.Unit(), for the hit best
slideAlong(c, v, best, vUnit) ==
    slideFrom(best,
              [Origin |-> best.pt,
               Normal |-> Unit(Minus(best.pt, Plus(c.Center, ScaledBy(vUnit, best.d))))],
              Plus(best.pt, ScaledBy(vUnit, Magnitude(v) - best.d)))

\* the part of moveCircle1 after its loop, which left best
moveFrom(c, v, best) ==
    IF ~best.hit
    THEN [distance |-> freeDistance(v), newVelocity |-> Zero, hit |-> FALSE,
          hitPoint |-> Zero, panic |-> FALSE]
    ELSE slideAlong(c, v, best, Unit(v))

moveCircle1(c, v, segs) ==
    moveFrom(c, v, nearestHit(c, v, segs, 1, [d |-> 0, pt |-> Zero, hit |-> FALSE]))

\* ------------------------------------------------------------------ inputs
Pt(x, y) == <<x * Scale, y * Scale>>

Floor == <<Pt(-3, 0), Pt(3, 0)>>
Wall == <<Pt(2, -1), Pt(2, 3)>>
Slope == <<Pt(-3, 3), Pt(0, 0)>>
Ledge == <<Pt(1, 0), Pt(2, 0)>>
Ceiling == <<Pt(3, 0), Pt(-3, 0)>>
SegSet == {Floor, Wall, Slope, Ledge, Ceiling}

SegLists == UNION {[1..n -> SegSet] : n \in 0..MaxSegs}
Centers == {Pt(0, 1), Pt(0, 2), Pt(-2, 3)}
Radiuses == {r * Scale : r \in 1..MaxR}
Velocities == {Pt(x, y) : x \in -1..MaxV, y \in -MaxV..0} \cup {Pt(0, 1)}

\* the inputs drawn from the sets above
GenericInputs ==
    [circle : [Center : Centers, Radius : Radiuses], vel : Velocities, segs : SegLists]

\* the end-to-end scenarios: the unit circle at the origin before the wall x = 5,
\* moved straight at the wall and at 45 degrees
ScenarioCircle == [Center |-> Pt(0, 0), Radius |-> Scale]
ScenarioWall == <<Pt(5, -10), Pt(5, 10)>>
HeadOn == Pt(10, 0)
Oblique == Pt(10, 10)
ScenarioInputs ==
    {[circle |-> ScenarioCircle, vel |-> vel, segs |-> <<ScenarioWall>>] :
        vel \in {HeadOn, Oblique}}

\* two segments that share the vertex (0,0): a roof, whose corner points at a circle
\* above it, and a valley, which opens towards it; the circle comes down the bisector
Roof == <<<<Pt(-2, -2), Pt(0, 0)>>, <<Pt(0, 0), Pt(2, -2)>>>>
Valley == <<<<Pt(-2, 2), Pt(0, 0)>>, <<Pt(0, 0), Pt(2, 2)>>>>
Corners == {Roof, Valley}
CornerInputs ==
    {[circle |-> [Center |-> Pt(0, y), Radius |-> Scale], vel |-> Pt(0, -2), segs |-> ss] :
        y \in {1, 2, 3}, ss \in Corners}

\* a circle resting on the floor with a velocity of less than Threshold a component
NearlyStill == <<Threshold \div 2, -(Threshold \div 2)>>
StillInputs ==
    {[circle |-> [Center |-> Pt(0, 1), Radius |-> Scale], vel |-> NearlyStill,
      segs |-> <<Floor>>]}

\* a circle resting on the slope and pushed down along it, a little into it
RestOnSlope == [Center |-> Plus(Pt(-1, 1), Unit(Pt(1, 1))), Radius |-> Scale]
IntoSlope == <<2 * Scale, -(2 * Scale) - Threshold \div 16>>
SlideInputs == {[circle |-> RestOnSlope, vel |-> IntoSlope, segs |-> <<Slope>>]}

Inputs ==
    GenericInputs \cup ScenarioInputs \cup CornerInputs \cup StillInputs \cup SlideInputs

NoMove == [distance |-> 0, newVelocity |-> Zero, hit |-> FALSE, hitPoint |-> Zero,
           panic |-> FALSE]

\* ------------------------------------------------------------------- state
VARIABLES
    inC,        \* the Circle given to MoveCircle
    inE,        \* the Ellipse given to MoveEllipse
    inV,        \* the velocity given to both
    inSegs,     \* the obstacle list given to both
    pc,         \* "main", "MoveCircle" (at the loop guard), "done", "panic"
    caller,     \* who called MoveCircle: "main" or "MoveEllipse"
    c, v, segs, onGround,   \* MoveCircle's parameters and local
    iter,       \* iterations of the loop in this call
    cPrev,      \* c before the last iteration
    vPrev,      \* v used by the last iteration
    mv,         \* the move of the last iteration
    resCircle,  \* what MoveCircle returned to main
    resEllipse, \* what MoveEllipse returned to main
    mainSegs,   \* phystest: segs, the set of segments defining obstacles
    click,      \* phystest: the position of the latest mouse click
    cursor,     \* phystest: the current cursor position
    move,       \* phystest: the velocity asked for by the arrow keys
    stopped     \* phystest: the body has effectively stopped moving

vars == <<inC, inE, inV, inSegs, pc, caller, c, v, segs, onGround, iter, cPrev, vPrev,
          mv, resCircle, resEllipse, mainSegs, click, cursor, move, stopped>>
inputs == <<inC, inE, inV, inSegs>>
physVars == <<inC, inE, inV, inSegs, pc, caller, c, v, segs, onGround, iter, cPrev,
              vPrev, mv, resCircle, resEllipse>>
demoVars == <<mainSegs, click, cursor, move, stopped>>

\* ------------------------------------------------------------ phystest
width == 640
height == 480
speed == 5
gravity == -1

\* the window-boundary walls, the initial value of segs
Walls ==
    <<<<<<0, height - 1>>, <<0, 0>>>>,
      <<<<0, 0>>, <<width - 1, 0>>>>,
      <<<<width - 1, 0>>, <<width - 1, height - 1>>>>,
      <<<<width - 1, height - 1>>, <<0, height - 1>>>>>>

NoClick == <<-1, -1>>

\* the package-level variables of phystest as declared
DemoStart ==
    /\ mainSegs = Walls
    /\ click = NoClick
    /\ cursor = Zero
    /\ move = Zero
    /\ stopped = FALSE

\* the state before main calls MoveCircle or MoveEllipse on the input in, the ellipse
\* of vertical radius ry
InitWith(in, ry) ==
    /\ inC = in.circle
    /\ inV = in.vel
    /\ inSegs = in.segs
    /\ inE = [Center |-> in.circle.Center, Radii |-> <<in.circle.Radius, ry>>]
    /\ pc = "main"
    /\ caller = "main"
    /\ c = in.circle
    /\ v = in.vel
    /\ segs = in.segs
    /\ onGround = FALSE
    /\ iter = 0
    /\ cPrev = in.circle
    /\ vPrev = in.vel
    /\ mv = NoMove
    /\ resCircle = [done |-> FALSE, Center |-> Zero, Radius |-> 0, onGround |-> FALSE]
    /\ resEllipse = [done |-> FALSE, Center |-> Zero, Radii |-> Zero, onGround |-> FALSE]
    /\ DemoStart

Init == \E in \in Inputs : \E ry \in {in.circle.Radius, Scale} : InitWith(in, ry)

\* main calls MoveCircle(inC, inV, inSegs)
CallMoveCircle ==
    /\ pc = "main"
    /\ ~resCircle.done
    /\ pc' = "MoveCircle"
    /\ caller' = "main"
    /\ c' = inC
    /\ v' = inV
    /\ segs' = inSegs
    /\ onGround' = FALSE
    /\ iter' = 0
    /\ cPrev' = inC
    /\ vPrev' = inV
    /\ mv' = NoMove
    /\ UNCHANGED <<inputs, resCircle, resEllipse, demoVars>>

\* the scaling of MoveEllipse
trOf(e) == <<Div(Scale, e.Radii[1]), Div(Scale, e.Radii[2])>>
trSegsOf(ss, tr) == [i \in 1..Len(ss) |-> <<Times(ss[i][1], tr), Times(ss[i][2], tr)>>]
\* the end points written into the caller's own slice
segsScaledInPlace(ss, tr) == trSegsOf(ss, tr)
\* the caller's segs after MoveEllipse has filled trSegs, a slice of its own from make
segsAfterScaling(ss, tr) == ss
\* the centre scaled by 1/Radii a second time in place of Radii
unscaleByInverse(center, e) == Times(center, trOf(e))
unscale(center, e) == Times(center, e.Radii)

\* main calls MoveEllipse(inE, inV, inSegs), which calls MoveCircle
CallMoveEllipse ==
    /\ pc = "main"
    /\ resCircle.done
    /\ ~resEllipse.done
    /\ LET scaling == trOf(inE)
           unitCircle == [Center |-> Times(inE.Center, scaling), Radius |-> Scale]
       IN  /\ c' = unitCircle
           /\ cPrev' = unitCircle
           /\ v' = Times(inV, scaling)
           /\ vPrev' = Times(inV, scaling)
           /\ segs' = trSegsOf(inSegs, scaling)
           /\ inSegs' = segsAfterScaling(inSegs, scaling)
    /\ pc' = "MoveCircle"
    /\ caller' = "MoveEllipse"
    /\ onGround' = FALSE
    /\ iter' = 0
    /\ mv' = NoMove
    /\ UNCHANGED <<inC, inE, inV, resCircle, resEllipse, demoVars>>

\* the advance along the velocity itself in place of its unit vector
advanceUnnormalised(center, vel, dist) == Plus(center, ScaledBy(vel, dist))

\* the centre after the advance of one iteration
advance(center, vel, dist) == Plus(center, ScaledBy(Unit(vel), dist))

\* the ground test without the test of the velocity's direction
hitGroundAnyDirection(center, radius, vel, m) ==
    m.hit /\ m.hitPoint[2] < center[2] - Mul(radius, bodyFactor)

hitGround(center, radius, vel, m) ==
    LET lowest == center[2] - Mul(radius, bodyFactor)
    IN  vel[2] < 0 /\ m.hit /\ m.hitPoint[2] < lowest

\* the body of the loop after mv := moveCircle1(c, v, segs) and the advance to moved
stepTo(step, moved) ==
    IF step.panic
    THEN /\ pc' = "panic"
         /\ UNCHANGED <<c, v, onGround>>
         /\ mv' = step
    ELSE /\ pc' = pc
         /\ c' = [c EXCEPT !.Center = moved]
         /\ onGround' = (onGround \/ hitGround(moved, c.Radius, v, step))
         /\ v' = step.newVelocity
         /\ mv' = step

\* the body of the loop after mv := moveCircle1(c, v, segs)
stepBy(step) == stepTo(step, advance(c.Center, v, step.distance))

\* one iteration of the loop of MoveCircle
Iterate ==
    /\ pc = "MoveCircle"
    /\ ~NearZero(v)
    /\ iter < MaxIter
    /\ stepBy(moveCircle1(c, v, segs))
    /\ cPrev' = c
    /\ vPrev' = v
    /\ iter' = iter + 1
    /\ UNCHANGED <<inputs, caller, segs, resCircle, resEllipse, demoVars>>

\* the loop guard fails: MoveCircle returns, and MoveEllipse after it
Return ==
    /\ pc = "MoveCircle"
    /\ NearZero(v)
    /\ IF caller = "main"
       THEN /\ resCircle' = [done |-> TRUE, Center |-> c.Center, Radius |-> c.Radius,
                             onGround |-> onGround]
            /\ UNCHANGED resEllipse
       ELSE /\ resEllipse' = [done |-> TRUE, Center |-> unscale(c.Center, inE),
                              Radii |-> inE.Radii, onGround |-> onGround]
            /\ UNCHANGED resCircle
    /\ pc' = IF caller = "main" THEN "main" ELSE "done"
    /\ UNCHANGED <<inputs, caller, c, v, segs, onGround, iter, cPrev, vPrev, mv, demoVars>>

Next == CallMoveCircle \/ CallMoveEllipse \/ Iterate \/ Return

Spec == Init /\ [][Next]_vars

\* ------------------------------------------------- phystest: the event handlers
\* where the mouse can be, in window coordinates, its buttons and the keys
Pixels == {<<100, 100>>, <<width - 1, height - 1>>}
Buttons == {"LeftButton", "RightButton"}
TypedKeys == {"d", "x"}
ArrowKeys == {"left_arrow", "right_arrow", "up_arrow", "down_arrow"}

\* Point{float64(ev.Where.X), float64(height - ev.Where.Y - 1)}
PointAt(where) == <<where[1], height - where[2] - 1>>

mouseMove ==
    /\ \E where \in Pixels : cursor' = PointAt(where)
    /\ UNCHANGED <<mainSegs, click, move, stopped, physVars>>

mouseDown ==
    /\ \E where \in Pixels, which \in Buttons :
          click' = IF which = "LeftButton" THEN PointAt(where) ELSE click
    /\ UNCHANGED <<mainSegs, cursor, move, stopped, physVars>>

\* the drawn segments are capped at MaxDrawn
mouseUp ==
    /\ \E which \in Buttons :
          IF which = "LeftButton"
          THEN /\ Len(mainSegs) < 4 + MaxDrawn
               /\ mainSegs' = Append(mainSegs, <<click, cursor>>)
               /\ click' = NoClick
          ELSE UNCHANGED <<mainSegs, click>>
    /\ UNCHANGED <<cursor, move, stopped, physVars>>

\* the last segment removed whatever the length of the list
segsAfterKeyUnguarded(ss, key) ==
    IF key = "d" THEN SubSeq(ss, 1, Len(ss) - 1) ELSE ss

\* segs after keyTyped
segsAfterKey(ss, key) ==
    IF key = "d" /\ Len(ss) > 4 THEN SubSeq(ss, 1, Len(ss) - 1) ELSE ss

keyTyped ==
    /\ \E key \in TypedKeys : mainSegs' = segsAfterKey(mainSegs, key)
    /\ UNCHANGED <<click, cursor, move, stopped, physVars>>

moveAfterKeyDown(mo, key) ==
    IF key = "left_arrow" THEN <<-speed, mo[2]>>
    ELSE IF key = "right_arrow" THEN <<speed, mo[2]>>
    ELSE IF key = "up_arrow" THEN <<mo[1], speed - gravity>>
    ELSE IF key = "down_arrow" THEN <<mo[1], -speed>>
    ELSE mo

keyDown ==
    /\ \E key \in ArrowKeys \cup TypedKeys : move' = moveAfterKeyDown(move, key)
    /\ stopped' = FALSE
    /\ UNCHANGED <<mainSegs, click, cursor, physVars>>

moveAfterKeyUp(mo, key) ==
    IF key \in {"left_arrow", "right_arrow"} THEN <<0, mo[2]>>
    ELSE IF key \in {"up_arrow", "down_arrow"} THEN <<mo[1], 0>>
    ELSE mo

keyUp ==
    /\ \E key \in ArrowKeys \cup TypedKeys : move' = moveAfterKeyUp(move, key)
    /\ UNCHANGED <<mainSegs, click, cursor, stopped, physVars>>

\* phystest before its first event, no call of the phys package under way
DemoInit == InitWith([circle |-> ScenarioCircle, vel |-> HeadOn, segs |-> <<ScenarioWall>>], Scale)

DemoNext == mouseMove \/ mouseDown \/ mouseUp \/ keyTyped \/ keyDown \/ keyUp

DemoSpec == DemoInit /\ [][DemoNext]_vars

\* ================================================================== claims
\* what every segment of the list reports for the last iteration's arguments
HitsOf(cc, vv, ss) == [i \in 1..Len(ss) |-> circleSegmentHit(cc, vv, ss[i])]
LastHits == HitsOf(cPrev, vPrev, segs)
Hitting(H) == {i \in DOMAIN H : H[i].hit}
\* i is the nearest hit of H, the earliest among equals
IsFirstNearest(H, i) ==
    /\ i \in Hitting(H)
    /\ \A j \in Hitting(H) : H[i].d <= H[j].d /\ (H[j].d = H[i].d => i <= j)

Within(a, b, tol) == Abs(a - b) <= tol
\* rounding accumulated over the operations of one iteration: a fraction of Threshold
Rounding == Threshold \div 8

\* MoveCircle has just returned to main / MoveEllipse has returned to main
CircleReturned == resCircle.done /\ caller = "main"
EllipseReturned == resEllipse.done

\* C1: whenever MoveCircle returns, the velocity left by the final iteration has
\* every component within Threshold of 0.
C1_ReturnsResolved ==
    (CircleReturned \/ EllipseReturned) =>
        /\ Abs(v[1]) < Threshold
        /\ Abs(v[2]) < Threshold
        /\ iter > 0 => v = mv.newVelocity

\* C1 witness: MoveCircle returned after an iteration that hit and one that did not
C1_Witness == CircleReturned /\ iter >= 2 /\ onGround

\* C2 (as claimed): every iteration either hits nothing and leaves a zero velocity,
\* or strictly reduces the remaining displacement (the magnitude of the velocity).
C2_EachIterationReduces ==
    [][iter' = iter + 1 =>
        \/ ~mv'.hit /\ v' = Zero
        \/ Magnitude(v') < Magnitude(v)]_vars

\* C3 (as claimed): with nothing hit the move is the whole velocity, the new velocity
\* is zero and a first iteration leaves the centre at exactly centre + velocity.
C3_ExactFreeMove ==
    (iter > 0 /\ ~mv.hit /\ ~mv.panic) =>
        /\ Hitting(LastHits) = {}
        /\ mv.distance = Magnitude(vPrev)
        /\ v = Zero
        /\ iter = 1 => (c.Center = Plus(cPrev.Center, vPrev) /\ ~onGround)

\* C3 (amended): with nothing hit the move is the whole velocity, the new velocity is
\* zero, and a first iteration leaves the centre at centre + velocity up to rounding
\* (within Threshold per coordinate), the loop then ends and onGround is false.
C3_FreeMove ==
    /\ (iter > 0 /\ ~mv.hit /\ ~mv.panic) =>
        /\ Hitting(LastHits) = {}
        /\ mv.distance = Magnitude(vPrev)
        /\ v = Zero
        /\ iter = 1 => (Equals(c.Center, Plus(cPrev.Center, vPrev)) /\ ~onGround)
    /\ (CircleReturned /\ iter = 1 /\ ~mv.hit) =>
        /\ Equals(resCircle.Center, Plus(inC.Center, inV))
        /\ ~resCircle.onGround

\* C3 witness: a returned call whose only iteration met segments but hit none
C3_Witness ==
    /\ CircleReturned /\ iter = 1 /\ ~mv.hit /\ Len(segs) > 0
    /\ resCircle.Center # Plus(inC.Center, inV)

\* C4: the iteration resolves against the hit of smallest distance among the segments
\* that report a hit, the earliest in the list among equal distances; segments that
\* report no hit have no influence; there is a hit exactly when some segment reports one.
C4_NearestEarliest ==
    (iter > 0 /\ ~mv.panic) =>
        /\ mv.hit <=> Hitting(LastHits) # {}
        /\ mv.hit => \E i \in Hitting(LastHits) :
                        /\ IsFirstNearest(LastHits, i)
                        /\ mv.hitPoint = LastHits[i].pt
                        /\ mv.distance = LastHits[i].d - Threshold

\* C4 witness: two segments report the same distance at different contact points and
\* the earlier one is used, while a third reports no hit
C4_Witness ==
    /\ iter > 0 /\ mv.hit
    /\ \E i, j \in Hitting(LastHits) :
          /\ i < j
          /\ IsFirstNearest(LastHits, i)
          /\ LastHits[j].d = LastHits[i].d
          /\ LastHits[j].pt # LastHits[i].pt
          /\ mv.hitPoint = LastHits[i].pt

\* C5: on a hit at distance d the travel distance is d - Threshold and the centre is
\* displaced by that signed amount along the unit direction of the velocity used in the
\* iteration; for d < Threshold the displacement is backwards.
C5_PullBack ==
    (iter > 0 /\ mv.hit) =>
        LET disp == Minus(c.Center, cPrev.Center)
        IN  /\ \E i \in Hitting(LastHits) :
                  IsFirstNearest(LastHits, i) /\ mv.distance = LastHits[i].d - Threshold
            /\ c.Center = Plus(cPrev.Center, ScaledBy(Unit(vPrev), mv.distance))
            /\ Within(Magnitude(disp), Abs(mv.distance), Rounding)
            /\ mv.distance < 0 => Dot(disp, Unit(vPrev)) < 0
            /\ mv.distance > 0 => Dot(disp, Unit(vPrev)) > 0

\* C5 witness: a hit at distance 0 (the circle already touches), moved backwards
C5_Witness ==
    /\ iter > 0 /\ mv.hit /\ mv.distance = -Threshold
    /\ Dot(Minus(c.Center, cPrev.Center), vPrev) < 0

\* the geometry of the last iteration's hit, from the hit of segment i
Touching(i) == Plus(cPrev.Center, ScaledBy(Unit(vPrev), LastHits[i].d))
SlideNormal(i) == Unit(Minus(LastHits[i].pt, Touching(i)))
Remaining(i) == ScaledBy(Unit(vPrev), Magnitude(vPrev) - LastHits[i].d)
\* the orthogonal projection of the vector w onto the line perpendicular to n
Projected(w, n) == Minus(w, ScaledBy(n, Dot(w, n)))

\* C6: on a hit the new velocity is the vector from the contact point to the orthogonal
\* projection of the unobstructed destination onto the slide plane, the plane through
\* the contact point perpendicular to the line from the contact point to the centre
\* advanced by the full hit distance (one radius away); it is perpendicular to the
\* slide normal and has no component into the obstacle.
C6_SlideVelocity ==
    (iter > 0 /\ mv.hit) =>
        \E i \in Hitting(LastHits) :
            /\ IsFirstNearest(LastHits, i)
            /\ Within(Magnitude(Minus(LastHits[i].pt, Touching(i))), cPrev.Radius, Rounding)
            /\ Equals(mv.newVelocity, Projected(Remaining(i), SlideNormal(i)))
            /\ Float64Equals(Dot(mv.newVelocity, SlideNormal(i)), 0)
            /\ v = mv.newVelocity

\* C6 witness: an oblique hit that leaves a slide velocity, on a contact at the end of
\* a segment (the slide normal is not the segment's normal)
C6_Witness ==
    /\ iter > 0 /\ mv.hit /\ ~NearZero(mv.newVelocity)
    /\ \E i \in Hitting(LastHits) :
          /\ IsFirstNearest(LastHits, i)
          /\ ~Equals(SlideNormal(i), Inverse(Normal(segs[i])))

\* C8: after an iteration that hit a segment the centre is at least radius - Threshold
\* away from the nearest point of that segment.
C8_NotEmbedded ==
    (iter > 0 /\ mv.hit) =>
        \E i \in Hitting(LastHits) :
            /\ IsFirstNearest(LastHits, i)
            /\ Magnitude(Minus(c.Center, NearestPoint(segs[i], c.Center)))
                  >= c.Radius - Threshold

\* C8 witness: a hit on the end point of a segment after a real advance
C8_Witness ==
    /\ iter > 0 /\ mv.hit /\ mv.distance > Threshold
    /\ \E i \in Hitting(LastHits) :
          IsFirstNearest(LastHits, i) /\ LastHits[i].pt \in {segs[i][1], segs[i][2]}

\* C9 (as claimed): MoveEllipse with radii (r, r) returns the centre MoveCircle returns
\* for radius r, within Threshold per coordinate, and the same onGround.
C9_IsotropicEllipseIsCircle ==
    (EllipseReturned /\ inE.Radii = <<inC.Radius, inC.Radius>>) =>
        /\ Within(resEllipse.Center[1], resCircle.Center[1], Threshold)
        /\ Within(resEllipse.Center[2], resCircle.Center[2], Threshold)
        /\ resEllipse.onGround = resCircle.onGround

\* C10: MoveEllipse runs MoveCircle on the unit circle at the centre scaled by 1/Radii,
\* with the velocity and both end points of every segment, in order, scaled the same
\* way, and returns that centre scaled back by Radii with the Radii unchanged and
\* MoveCircle's onGround; with no hit the centre returned is e.Center + v (the scaling by
\* 1/Radii and back by Radii being float64 operations, equal as Vector.Equals decides).
C10_EllipseByScaling ==
    /\ caller = "MoveEllipse" =>
          /\ c.Radius = Scale
          /\ Len(segs) = Len(inSegs)
          /\ \A i \in 1..Len(segs) : \A j \in 1..2 :
                Within(Times(segs[i][j], inE.Radii)[1], inSegs[i][j][1], Rounding)
                /\ Within(Times(segs[i][j], inE.Radii)[2], inSegs[i][j][2], Rounding)
          /\ iter = 0 =>
                /\ Within(Times(c.Center, inE.Radii)[1], inE.Center[1], Rounding)
                /\ Within(Times(c.Center, inE.Radii)[2], inE.Center[2], Rounding)
                /\ Within(Times(v, inE.Radii)[1], inV[1], Rounding)
                /\ Within(Times(v, inE.Radii)[2], inV[2], Rounding)
    /\ EllipseReturned =>
          /\ resEllipse.Radii = inE.Radii
          /\ resEllipse.onGround = onGround
          /\ resEllipse.Center[1] = Mul(c.Center[1], inE.Radii[1])
          /\ resEllipse.Center[2] = Mul(c.Center[2], inE.Radii[2])
          /\ (iter = 1 /\ ~mv.hit) => Equals(resEllipse.Center, Plus(inE.Center, inV))

\* C10 witness: a true ellipse returned after a hit, with segments in the list
C10_Witness ==
    /\ EllipseReturned /\ inE.Radii[1] # inE.Radii[2]
    /\ iter >= 2 /\ Len(segs) = MaxSegs /\ resEllipse.onGround

GroundContact ==
    /\ mv'.hit
    /\ v[2] < 0
    /\ mv'.hitPoint[2] < c'.Center[2] - Mul(c.Radius, Scale - 2 * bottomFactor)

\* C12: a call starts with onGround false, every iteration sets it exactly when it was
\* set already or the iteration was a ground contact (so it stays set, and an iteration
\* without a hit leaves it as it was), and the call returns it.
C12_OnGround ==
    /\ [](iter = 0 => ~onGround)
    /\ [](CircleReturned => resCircle.onGround = onGround)
    /\ [][(iter' = iter + 1 /\ pc' # "panic") =>
              /\ onGround' = (onGround \/ GroundContact)
              /\ ~mv'.hit => onGround' = onGround]_vars

\* C12 witness: onGround was set by a ground contact and is still set after a later
\* iteration that hit nothing, when MoveCircle returns it
C12_Witness ==
    /\ CircleReturned /\ resCircle.onGround
    /\ iter >= 2 /\ ~mv.hit

\* the last iteration hit segment i head on: its velocity is perpendicular to the
\* segment and the contact is the foot of the perpendicular from the centre, inside
\* the segment
HeadOnHit(i) ==
    /\ IsFirstNearest(LastHits, i)
    /\ Dot(vPrev, Minus(segs[i][2], segs[i][1])) = 0
    /\ NearestPoint(segs[i], cPrev.Center) \notin {segs[i][1], segs[i][2]}
    /\ Equals(LastHits[i].pt, NearestPoint(segs[i], cPrev.Center))

\* MoveCircle has returned for the scenario with the velocity vel
ScenarioReturned(vel) ==
    /\ CircleReturned
    /\ inC = ScenarioCircle /\ inV = vel /\ inSegs = <<ScenarioWall>>

\* C13: after a head-on hit the centre is at a distance from the segment within
\* Threshold of the radius and the velocity left is near zero (a full stop); the circle
\* at (0,0) of radius 1 with velocity (10,0) before the wall (5,-10)-(5,10) returns
\* after one iteration at (4 - Threshold, 0).
C13_HeadOnStop ==
    /\ (iter > 0 /\ mv.hit) =>
          \A i \in Hitting(LastHits) : HeadOnHit(i) =>
              /\ Within(Magnitude(Minus(c.Center, NearestPoint(segs[i], c.Center))),
                        c.Radius, Threshold)
              /\ NearZero(v)
    /\ ScenarioReturned(HeadOn) =>
          /\ iter = 1 /\ mv.hit
          /\ resCircle.Center = <<4 * Scale - Threshold, 0>>
          /\ NearZero(v)

\* C13 witness: the scenario has returned from its head-on hit
C13_Witness == ScenarioReturned(HeadOn) /\ mv.hit /\ HeadOnHit(1)

\* the first iteration of MoveCircle for the 45 degree scenario has just run
ObliqueFirstIteration ==
    /\ caller = "main" /\ pc = "MoveCircle" /\ iter = 1
    /\ inC = ScenarioCircle /\ inV = Oblique /\ inSegs = <<ScenarioWall>>

\* C14 (as claimed): in the 45 degree scenario the new velocity of the first iteration
\* has x near zero and y approximately 10 (here: within one unit of 10).
C14_ObliqueKeepsTen ==
    ObliqueFirstIteration =>
        /\ Float64Equals(mv.newVelocity[1], 0)
        /\ Within(mv.newVelocity[2], 10 * Scale, Scale)

\* C14 (amended): the contact is at centre (4,4), the remaining displacement (6,6)
\* projected onto the wall is (0,6): the new velocity of the first iteration has x near
\* zero and y = 6 within Threshold, and the call returns the centre (4, 10) within
\* Threshold per coordinate after a second iteration that hits nothing.
C14_ObliqueSlide ==
    /\ ObliqueFirstIteration =>
          /\ mv.hit /\ mv.hitPoint = Pt(5, 4)
          /\ Float64Equals(mv.newVelocity[1], 0)
          /\ Float64Equals(mv.newVelocity[2], 6 * Scale)
    /\ ScenarioReturned(Oblique) =>
          /\ iter = 2 /\ ~mv.hit
          /\ Equals(resCircle.Center, Pt(4, 10))

\* C14 witness: the first iteration of the 45 degree scenario left a slide velocity
C14_Witness == ObliqueFirstIteration /\ mv.hit /\ ~NearZero(v)

\* in the last iteration the velocity was parallel to the line of segment i and the
\* centre was farther than the radius from that line
ParallelAndClear(i) ==
    /\ Dot(vPrev, Normal(segs[i])) = 0
    /\ Abs(Dot(Minus(cPrev.Center, segs[i][1]), Normal(segs[i]))) > cPrev.Radius

\* C15: a segment whose line is parallel to the velocity and farther than the radius
\* from the centre reports no hit; when it is the only obstacle the iteration hits
\* nothing, travels the whole magnitude of the velocity and leaves a zero velocity.
C15_ParallelClear ==
    iter > 0 =>
        /\ \A i \in 1..Len(segs) : ParallelAndClear(i) => ~LastHits[i].hit
        /\ (Len(segs) = 1 /\ ParallelAndClear(1)) =>
              /\ ~mv.hit
              /\ mv.distance = Magnitude(vPrev)
              /\ Equals(c.Center, Plus(cPrev.Center, vPrev))
              /\ v = Zero

\* C15 witness: MoveCircle has returned after passing along a slanted segment, its
\* only obstacle, on the side the segment faces
C15_Witness ==
    /\ CircleReturned /\ iter = 1 /\ Len(segs) = 1 /\ ParallelAndClear(1)
    /\ segs[1] = Slope
    /\ Dot(Minus(cPrev.Center, segs[1][1]), Normal(segs[1])) > 0

\* the first iteration of MoveCircle on a corner, the velocity along its bisector
CornerFirstIteration ==
    /\ caller = "main" /\ iter = 1 /\ inSegs \in Corners

\* C16: a circle that comes to the vertex shared by two segments along the bisector of
\* their angle gets a slide velocity of strictly smaller magnitude than its velocity.
C16_CornerLosesSpeed ==
    (CornerFirstIteration /\ mv.hit) =>
        Magnitude(mv.newVelocity) < Magnitude(vPrev)

\* C16 witness: the circle has come down into the valley, touched both segments at the
\* same distance up to rounding and been given a slide velocity along one of them
C16_Witness ==
    /\ CornerFirstIteration /\ mv.hit /\ inSegs = Valley
    /\ Hitting(LastHits) = {1, 2}
    /\ Within(LastHits[1].d, LastHits[2].d, Rounding)
    /\ ~NearZero(mv.newVelocity)

\* p lies on the finite segment s: on its line and between its endpoints
OnSegment(s, p) ==
    /\ Within(Dot(Minus(p, s[1]), Normal(s)), 0, Rounding)
    /\ Dot(Minus(p, s[1]), Unit(Minus(s[2], s[1]))) >= -Rounding
    /\ Dot(Minus(p, s[1]), Unit(Minus(s[2], s[1]))) <= Magnitude(Minus(s[2], s[1])) + Rounding

\* p lies on the circle cc moved by d along the unit of vv
OnCircleAt(cc, vv, d, p) ==
    Within(Magnitude(Minus(p, Plus(cc.Center, ScaledBy(Unit(vv), d)))), cc.Radius, Rounding)

\* the point of the line of s that circlePlaneHit finds, and the distance back from the
\* nearest point of s to the circle, for the last iteration
LinePoint(i) == circlePlaneHit(cPrev, vPrev, Line(segs[i]))
BackToCircle(i) ==
    SphereIntersection([Origin |-> NearestPoint(segs[i], LinePoint(i).pt),
                        Direction |-> Unit(Inverse(vPrev))], cPrev)

\* C17: circleSegmentHit reports a hit exactly when the distance back to the circle
\* exists and lies in 0..|velocity|; the contact point is then the point of the finite
\* segment nearest the line candidate and lies on the circle moved by d along the unit
\* velocity; otherwise it returns 0, the zero point and hit = false.
C17_SegmentHit ==
    iter > 0 =>
        \A i \in DOMAIN LastHits :
            /\ LastHits[i].hit <=>
                    /\ LinePoint(i).hit /\ BackToCircle(i).hit
                    /\ 0 <= BackToCircle(i).d /\ BackToCircle(i).d <= Magnitude(vPrev)
            /\ LastHits[i].hit =>
                    /\ 0 <= LastHits[i].d /\ LastHits[i].d <= Magnitude(vPrev)
                    /\ LastHits[i].d = BackToCircle(i).d
                    /\ LastHits[i].pt = NearestPoint(segs[i], LinePoint(i).pt)
                    /\ OnSegment(segs[i], LastHits[i].pt)
                    /\ OnCircleAt(cPrev, vPrev, LastHits[i].d, LastHits[i].pt)
            /\ ~LastHits[i].hit => LastHits[i].d = 0 /\ LastHits[i].pt = Zero

\* C17 witness: one segment is hit at an endpoint, the line candidate lying beyond it,
\* after a positive distance, and another segment's line is met but the segment is not
C17_Witness ==
    /\ iter > 0
    /\ \E i \in Hitting(LastHits) :
            /\ LastHits[i].d > 0
            /\ LastHits[i].pt \in {segs[i][1], segs[i][2]}
            /\ LinePoint(i).pt # LastHits[i].pt
    /\ \E j \in DOMAIN LastHits : LinePoint(j).hit /\ ~LastHits[j].hit

\* the distance from the centre to the line of segs[i] against the line's normal, for
\* the last iteration
CentreToLine(i) ==
    PlaneIntersection([Origin |-> cPrev.Center, Direction |-> Inverse(Normal(segs[i]))],
                      Line(segs[i]))

\* the circle of the last iteration reaches the line of segs[i] before moving
Overlapping(i) ==
    /\ CentreToLine(i).hit
    /\ 0 <= CentreToLine(i).d /\ CentreToLine(i).d <= cPrev.Radius

\* p is the foot of the perpendicular from q on the line of s
IsProjection(s, q, p) ==
    /\ Within(Dot(Minus(p, s[1]), Normal(s)), 0, Rounding)
    /\ Within(Dot(Minus(p, q), Unit(Minus(s[2], s[1]))), 0, Rounding)

Selected(i) == iter > 0 /\ mv.hit /\ IsFirstNearest(LastHits, i)

\* the first iteration of a MoveCircle call from main resolves against segs[i]
SelectedFirst(i) ==
    /\ caller = "main" /\ iter >= 1
    /\ IsFirstNearest(HitsOf(inC, inV, segs), i)

\* C19 (as claimed): within one MoveCircle call the loop runs at most Len(segs) + 1
\* iterations, and (the least that a contact found at most once requires) the second
\* iteration does not resolve against the segment the first resolved against.
C19_ContactOnce ==
    /\ iter <= Len(segs) + 1
    /\ iter = 2 => \A i \in DOMAIN segs : ~(SelectedFirst(i) /\ Selected(i))

\* every component of u is within Threshold of 0
AllWithinThreshold(u) == \A k \in 1..2 : Abs(u[k]) < Threshold

\* C20: moveCircle1, and circleSegmentHit under it, are never called with a velocity
\* whose every component is within Threshold of 0, so Unit() divides by a positive
\* magnitude; a MoveCircle call whose initial velocity is near zero performs no
\* iteration and returns the circle unchanged with onGround = false.
C20_NeverNearZero ==
    /\ iter > 0 => (~AllWithinThreshold(vPrev) /\ Magnitude(vPrev) > 0)
    /\ (CircleReturned /\ AllWithinThreshold(inV)) =>
            /\ iter = 0
            /\ resCircle.Center = inC.Center /\ resCircle.Radius = inC.Radius
            /\ ~resCircle.onGround

\* C20 witness: MoveCircle has returned right after an iteration that hit and left a
\* velocity that is not zero but within Threshold of 0 in every component
C20_Witness ==
    /\ CircleReturned /\ iter >= 1 /\ mv.hit
    /\ v # Zero /\ AllWithinThreshold(v)

\* u rotated by the angle of cosine cs and sine sn (a multiple of 90 degrees)
Rotated(u, cs, sn) == <<cs * u[1] - sn * u[2], sn * u[1] + cs * u[2]>>

\* the unit direction from the first endpoint of s to the second
Direction(s) == Unit(Minus(s[2], s[1]))
Reversed(s) == <<s[2], s[1]>>

\* C21 (as claimed): the normal of a segment is the unit direction of p1 - p0 rotated
\* by -90 degrees.
C21_NormalMinus90 ==
    iter > 0 => \A i \in DOMAIN segs : Normal(segs[i]) = Rotated(Direction(segs[i]), 0, -1)

\* C21 (amended): the normal of a segment is the unit direction of p1 - p0 rotated by
\* +90 degrees, (x, y) to (-y, x); the reversed segment has the opposite normal, and a
\* segment is hit only by a circle whose centre is on the side its normal points to.
C21_NormalPlus90 ==
    iter > 0 =>
        \A i \in DOMAIN segs :
            /\ Normal(segs[i]) = Rotated(Direction(segs[i]), 0, 1)
            /\ Equals(Normal(Reversed(segs[i])), Inverse(Normal(segs[i])))
            /\ LastHits[i].hit =>
                    Dot(Minus(cPrev.Center, segs[i][1]), Normal(segs[i])) >= -Rounding

\* C21 witness: of a segment and its reverse in one obstacle list, the iteration hits
\* the one whose normal points to the circle's side
C21_Witness ==
    /\ iter > 0 /\ Len(segs) = 2
    /\ segs[2] = Reversed(segs[1])
    /\ Hitting(LastHits) = {2}
    /\ LastHits[2].d > 0

\* the table of TestSegmentNormal: s0, s1, n
NormalTests ==
    {<<Pt(-1, 0), Pt(1, 0), Pt(0, 1)>>, <<Pt(1, 0), Pt(-1, 0), Pt(0, -1)>>,
     <<Pt(0, -1), Pt(0, 1), Pt(-1, 0)>>, <<Pt(0, 1), Pt(0, -1), Pt(1, 0)>>}

\* n is (-d.y, d.x) / |d| for d = p1 - p0, of magnitude 1 and perpendicular to d
IsUnitPerpendicular(s, n) ==
    /\ n = DividedBy(<<-(s[2][2] - s[1][2]), s[2][1] - s[1][1]>>,
                     Magnitude(Minus(s[2], s[1])))
    /\ Within(Magnitude(n), Scale, Rounding)
    /\ Within(Dot(n, Minus(s[2], s[1])), 0, Rounding * (1 + Magnitude(Minus(s[2], s[1])) \div Scale))

\* C22: for a segment with distinct endpoints Normal returns (-d.y, d.x) / |d|, a unit
\* vector perpendicular to the segment that swapping the endpoints negates; the
\* segments of TestSegmentNormal get the normals the test expects.
C22_NormalFormula ==
    /\ \A t \in NormalTests : Equals(Normal(<<t[1], t[2]>>), t[3])
    /\ iter > 0 =>
            \A i \in DOMAIN segs :
                /\ IsUnitPerpendicular(segs[i], Normal(segs[i]))
                /\ Normal(<<segs[i][2], segs[i][1]>>) = <<-Normal(segs[i])[1], -Normal(segs[i])[2]>>

\* C22 witness: MoveEllipse has scaled a slanted segment, whose normal has two
\* components that are not zero and differ in size
C22_Witness ==
    /\ iter > 0 /\ caller = "MoveEllipse" /\ segs # inSegs
    /\ \E i \in DOMAIN segs :
            /\ Normal(segs[i])[1] # 0 /\ Normal(segs[i])[2] # 0
            /\ Abs(Normal(segs[i])[1]) # Abs(Normal(segs[i])[2])

\* the rows of TestRayPlaneIntersectionHit: ray, plane, distance
PlaneHitTests ==
    {<<[Origin |-> Zero, Direction |-> Pt(1, 0)], [Origin |-> Pt(1, 0), Normal |-> Pt(-1, 0)], Scale>>,
     <<[Origin |-> Zero, Direction |-> Pt(1, 0)], [Origin |-> Pt(1, 1), Normal |-> Pt(-1, 0)], Scale>>,
     <<[Origin |-> Zero, Direction |-> Pt(1, 0)], [Origin |-> <<Scale \div 2, 0>>, Normal |-> Pt(-1, 0)], Scale \div 2>>,
     <<[Origin |-> Zero, Direction |-> Pt(1, 0)], [Origin |-> <<Scale \div 2, 0>>, Normal |-> Pt(1, 0)], Scale \div 2>>,
     <<[Origin |-> Zero, Direction |-> Pt(0, 1)], [Origin |-> Pt(0, 1), Normal |-> Pt(0, -1)], Scale>>,
     <<[Origin |-> Zero, Direction |-> Unit(Pt(1, 1))], [Origin |-> Pt(1, 1), Normal |-> Unit(Pt(-1, -1))], Sqrt(2 * Scale)>>}

\* the rows of TestRayPlaneIntersectionMiss: ray, plane
PlaneMissTests ==
    {<<[Origin |-> Zero, Direction |-> Pt(-1, 0)], [Origin |-> Pt(1, 0), Normal |-> Pt(-1, 0)]>>,
     <<[Origin |-> Zero, Direction |-> Pt(0, 1)], [Origin |-> Pt(1, 0), Normal |-> Pt(-1, 0)]>>}

\* the plane p lies behind the ray r: on the side its direction points away from
PlaneBehind(r, p) ==
    Sgn(Dot(Minus(p.Origin, r.Origin), p.Normal)) * Sgn(Dot(r.Direction, p.Normal)) < 0

\* the result sect of r.PlaneIntersection(p) is as C23 says
PlaneResultRight(r, p, sect) ==
    /\ sect.hit <=> ~(Abs(Dot(r.Direction, p.Normal)) < Threshold)
    /\ ~sect.hit => sect.d = 0
    /\ sect.hit =>
          /\ Within(Dot(Minus(Plus(r.Origin, ScaledBy(r.Direction, sect.d)), p.Origin),
                        p.Normal),
                    0, Rounding * (1 + Abs(sect.d) \div Scale))
          /\ PlaneBehind(r, p) => sect.d <= 0
          /\ sect.d < 0 => PlaneBehind(r, p)

\* the rays that the last iteration casts at the line of segs[i], and one from the
\* centre along the velocity
RaysAt(i) ==
    {[Origin |-> cPrev.Center, Direction |-> Inverse(Normal(segs[i]))],
     [Origin |-> Plus(cPrev.Center, ScaledBy(Inverse(Normal(segs[i])), cPrev.Radius)),
      Direction |-> Unit(vPrev)],
     [Origin |-> cPrev.Center, Direction |-> Unit(vPrev)]}

\* C23: PlaneIntersection returns (0, false) exactly when |direction . normal| is below
\* Threshold; otherwise hit = true and the signed distance t with origin + t * direction
\* on the plane, negative when the plane is behind the ray.
C23_PlaneIntersection ==
    /\ \A t \in PlaneHitTests : Float64Equals(PlaneIntersection(t[1], t[2]).d, t[3])
    /\ \A t \in PlaneMissTests :
            ~PlaneIntersection(t[1], t[2]).hit \/ PlaneIntersection(t[1], t[2]).d < 0
    /\ iter > 0 =>
            \A i \in DOMAIN segs : \A r \in RaysAt(i) :
                PlaneResultRight(r, Line(segs[i]), PlaneIntersection(r, Line(segs[i])))

\* C23 witness: in one iteration a ray along the velocity meets one line ahead, has
\* another line behind it at a negative distance, and is parallel to neither
C23_Witness ==
    /\ iter > 0
    /\ \E i, j \in DOMAIN segs :
          LET r == [Origin |-> cPrev.Center, Direction |-> Unit(vPrev)]
          IN  /\ PlaneIntersection(r, Line(segs[i])).hit
              /\ PlaneIntersection(r, Line(segs[i])).d > 0
              /\ PlaneIntersection(r, Line(segs[j])).hit
              /\ PlaneIntersection(r, Line(segs[j])).d < 0

\* the rows of TestRaySphereIntersectionHit: ray direction, sphere centre, radius,
\* distance; every ray starts at the origin
SphereHitTests ==
    {<<Pt(1, 0), Pt(1, 0), Scale, 0>>, <<Pt(1, 0), Pt(2, 0), Scale, Scale>>,
     <<Pt(1, 0), Pt(2, 0), 2 * Scale, 0>>,
     <<Pt(-1, 0), Pt(-1, 0), Scale, 0>>, <<Pt(-1, 0), Pt(-2, 0), Scale, Scale>>,
     <<Pt(-1, 0), Pt(-2, 0), 2 * Scale, 0>>,
     <<Pt(0, 1), Pt(0, 1), Scale, 0>>, <<Pt(0, 1), Pt(0, 2), Scale, Scale>>,
     <<Pt(0, 1), Pt(0, 2), 2 * Scale, 0>>,
     <<Pt(0, -1), Pt(0, -1), Scale, 0>>, <<Pt(0, -1), Pt(0, -2), Scale, Scale>>,
     <<Pt(0, -1), Pt(0, -2), 2 * Scale, 0>>,
     <<Unit(Pt(1, 1)), Pt(2, 2), Sqrt(2 * Scale), Sqrt(2 * Scale)>>}

\* the rows of TestRaySphereIntersectionMiss: ray direction, sphere centre, radius
SphereMissTests ==
    {<<Pt(-1, 0), Pt(1, 0), Scale \div 2>>, <<Pt(0, 1), Pt(1, 0), Scale \div 2>>}

SphereTestResult(t) ==
    SphereIntersection([Origin |-> Zero, Direction |-> t[1]],
                       [Center |-> t[2], Radius |-> t[3]])

\* the distance of the centre of s from the line of the ray r
OffLine(r, s) ==
    Abs(Mul(s.Center[1] - r.Origin[1], r.Direction[2])
        - Mul(s.Center[2] - r.Origin[2], r.Direction[1]))

\* the result sect of r.SphereIntersection(s) is as C24 says
SphereResultRight(r, s, sect) ==
    /\ ~sect.hit => (sect.d = 0 /\ OffLine(r, s) >= s.Radius - Rounding)
    /\ sect.hit =>
          /\ OffLine(r, s) <= s.Radius + Rounding
          /\ Within(Magnitude(Minus(Plus(r.Origin, ScaledBy(r.Direction, sect.d)), s.Center)),
                    s.Radius, Rounding * (1 + Abs(sect.d) \div Scale))
          /\ Magnitude(Minus(s.Center, r.Origin)) < s.Radius - Rounding => sect.d < 0
          /\ (/\ Dot(Minus(s.Center, r.Origin), r.Direction) < 0
              /\ Magnitude(Minus(s.Center, r.Origin)) > s.Radius + Rounding) => sect.d < 0
          /\ (/\ Magnitude(Minus(s.Center, r.Origin)) = s.Radius
              /\ Dot(Minus(s.Center, r.Origin), r.Direction) >= Scale \div 4)
                 => Within(sect.d, 0, Threshold)
          /\ sect.d <= Dot(Minus(s.Center, r.Origin), r.Direction)

\* rays from the points of segs[i] back against the velocity and along it
RaysFrom(i) ==
    {[Origin |-> o, Direction |-> dir] :
        o \in {NearestPoint(segs[i], LinePoint(i).pt), segs[i][1], segs[i][2]},
        dir \in {Unit(Inverse(vPrev)), Unit(vPrev)}}

\* C24: SphereIntersection returns hit = false when the ray's line does not meet the
\* sphere; otherwise hit = true and the signed distance to the nearer intersection, a
\* point of the surface; 0 from the near surface, negative from inside the sphere or
\* with the sphere behind the ray.
C24_SphereIntersection ==
    /\ \A t \in SphereHitTests : Float64Equals(SphereTestResult(t).d, t[4])
    /\ \A t \in SphereMissTests : ~SphereTestResult(t).hit \/ SphereTestResult(t).d < 0
    /\ iter > 0 =>
            \A i \in DOMAIN segs : \A r \in RaysFrom(i) :
                SphereResultRight(r, cPrev, SphereIntersection(r, cPrev))

\* C24 witness: of the rays of one iteration one misses the circle, one meets it ahead,
\* one starts inside it and one has it behind
C24_Witness ==
    /\ iter > 0
    /\ \E i \in DOMAIN segs : \E r1, r2, r3 \in RaysFrom(i) :
          /\ ~SphereIntersection(r1, cPrev).hit
          /\ SphereIntersection(r2, cPrev).hit /\ SphereIntersection(r2, cPrev).d > 0
          /\ SphereIntersection(r3, cPrev).hit /\ SphereIntersection(r3, cPrev).d < 0
          /\ Magnitude(Minus(cPrev.Center, r3.Origin)) > cPrev.Radius + Rounding
    /\ \E j \in DOMAIN segs : \E r4 \in RaysFrom(j) :
          /\ Magnitude(Minus(cPrev.Center, r4.Origin)) < cPrev.Radius - Rounding
          /\ SphereIntersection(r4, cPrev).d < 0

\* the rows of TestSegmentNearestPoint: s0, s1, p, n
NearestTests ==
    {<<Pt(-1, 0), Pt(1, 0), Pt(2, 0), Pt(1, 0)>>, <<Pt(-1, 0), Pt(1, 0), Pt(0, 1), Pt(0, 0)>>,
     <<Pt(-1, 0), Pt(1, 0), Pt(0, -1), Pt(0, 0)>>, <<Pt(-1, -1), Pt(1, 1), Pt(-1, 1), Pt(0, 0)>>,
     <<Pt(-1, -1), Pt(1, 1), Pt(1, -1), Pt(0, 0)>>}

\* how far along s the projection of p falls, from the first endpoint
Along(s, p) == Dot(Minus(p, s[1]), Direction(s))

\* points of s: the endpoints and the quarters between them
SamplesOf(s) ==
    {<<s[1][1] + ((s[2][1] - s[1][1]) * k) \div 4, s[1][2] + ((s[2][2] - s[1][2]) * k) \div 4>> :
        k \in 0..4}

\* n is the point of the finite segment s nearest p
IsNearestOn(s, p, n) ==
    /\ OnSegment(s, n)
    /\ Along(s, p) < 0 => n = s[1]
    /\ Along(s, p) > Magnitude(Minus(s[2], s[1])) => n = s[2]
    /\ (Along(s, p) >= 0 /\ Along(s, p) <= Magnitude(Minus(s[2], s[1])))
          => Within(Dot(Minus(n, p), Direction(s)), 0, Rounding)
    /\ \A q \in SamplesOf(s) : Magnitude(Minus(n, p)) <= Magnitude(Minus(q, p)) + Rounding

\* the points the last iteration is about: the centre before and after the whole
\* velocity, and the candidate on the line of segs[i]
PointsAt(i) ==
    {cPrev.Center, Plus(cPrev.Center, vPrev)}
        \cup (IF LinePoint(i).hit THEN {LinePoint(i).pt} ELSE {})

\* C25: for a segment with distinct endpoints and a point p, NearestPoint returns a
\* point of the finite segment, an endpoint when the projection of p falls outside and
\* the orthogonal projection otherwise, no farther from p than any point of the segment.
C25_NearestPoint ==
    /\ \A t \in NearestTests : Equals(NearestPoint(<<t[1], t[2]>>, t[3]), t[4])
    /\ iter > 0 =>
            \A i \in DOMAIN segs : \A p \in PointsAt(i) :
                IsNearestOn(segs[i], p, NearestPoint(segs[i], p))

\* C25 witness: in one iteration the candidate on one segment's line falls beyond its
\* second endpoint, and the centre projects inside another segment
C25_Witness ==
    /\ iter > 0
    /\ \E i \in DOMAIN segs :
          /\ LinePoint(i).hit
          /\ Along(segs[i], LinePoint(i).pt) > Magnitude(Minus(segs[i][2], segs[i][1]))
          /\ NearestPoint(segs[i], LinePoint(i).pt) = segs[i][2]
    /\ \E j \in DOMAIN segs :
          /\ Along(segs[j], cPrev.Center) > 0
          /\ Along(segs[j], cPrev.Center) < Magnitude(Minus(segs[j][2], segs[j][1]))
          /\ NearestPoint(segs[j], cPrev.Center) \notin {segs[j][1], segs[j][2]}

\* the distance from the contact point of segs[i] to the centre advanced by the hit
\* distance, and the projection of dest onto the slide plane, for the last iteration
ContactGap(i) == Magnitude(Minus(LastHits[i].pt, Touching(i)))
SlideProjection(i) ==
    PlaneIntersection([Origin |-> Plus(LastHits[i].pt, Remaining(i)),
                       Direction |-> SlideNormal(i)],
                      [Origin |-> LastHits[i].pt, Normal |-> SlideNormal(i)])

\* C26 (as claimed): on a hit the advanced centre is exactly one radius away from the
\* contact point, and the panic is never reached.
C26_ExactRadius ==
    /\ pc # "panic"
    /\ (iter > 0 /\ mv.hit) =>
          \E i \in Hitting(LastHits) :
              IsFirstNearest(LastHits, i) /\ ContactGap(i) = cPrev.Radius

\* C26 (amended): on a hit the advanced centre is one radius away from the contact
\* point up to rounding, so not on it; the slide normal is a unit vector, the
\* projection ray along it meets the slide plane, and the panic is never reached.
C26_NoPanic ==
    /\ pc # "panic" /\ ~mv.panic
    /\ (iter > 0 /\ mv.hit) =>
          \E i \in Hitting(LastHits) :
              /\ IsFirstNearest(LastHits, i)
              /\ Within(ContactGap(i), cPrev.Radius, Rounding)
              /\ ContactGap(i) > 0
              /\ Within(Magnitude(SlideNormal(i)), Scale, Rounding)
              /\ Within(Dot(SlideNormal(i), SlideNormal(i)), Scale, Rounding)
              /\ SlideProjection(i).hit

\* C26 witness: a hit with the advanced centre a rounding away from one radius, the
\* destination projected onto the slide plane and the loop going on
C26_Witness ==
    /\ iter > 0 /\ mv.hit /\ pc = "MoveCircle" /\ ~NearZero(v)
    /\ \E i \in Hitting(LastHits) :
          /\ IsFirstNearest(LastHits, i)
          /\ ContactGap(i) # cPrev.Radius
          /\ SlideProjection(i).hit /\ SlideProjection(i).d # 0

\* the clamped contact point of segs[i] lies strictly inside the circle at the start
\* of the last iteration
Embedded(i) ==
    /\ LinePoint(i).hit
    /\ Magnitude(Minus(NearestPoint(segs[i], LinePoint(i).pt), cPrev.Center))
          < cPrev.Radius - Rounding

\* C27: when the clamped contact point of a segment lies strictly inside the circle at
\* the start of an iteration, the distance back to the circle is negative and
\* circleSegmentHit reports no hit: the segment is not the one resolved against, and
\* with no other segment hit the circle moves by its whole velocity.
C27_EmbeddedIgnored ==
    iter > 0 =>
        /\ \A i \in DOMAIN segs :
              Embedded(i) =>
                  /\ BackToCircle(i).hit /\ BackToCircle(i).d < 0
                  /\ ~LastHits[i].hit
        /\ (segs # <<>> /\ \A i \in DOMAIN segs : Embedded(i)) =>
              /\ ~mv.hit /\ v = Zero
              /\ Equals(c.Center, Plus(cPrev.Center, vPrev))

\* C27 witness: a circle lying across both banks of the valley falls through them
C27_Witness ==
    /\ iter = 1 /\ inSegs = Valley /\ caller = "main"
    /\ \A i \in DOMAIN segs : Embedded(i)
    /\ ~mv.hit /\ c.Center[2] < 0

\* the centre of the last iteration's circle lies on the back side of the line of
\* segs[i], the side its normal points away from
BehindLine(i) == CentreToLine(i).hit /\ CentreToLine(i).d < 0

\* C28: a segment is one-sided: with the centre on the back side of its line
\* circlePlaneHit and circleSegmentHit report no hit, whatever the velocity and the
\* overlap; the side is the one the normal points away from.
C28_OneSided ==
    iter > 0 =>
        \A i \in DOMAIN segs :
            /\ BehindLine(i) => (~LinePoint(i).hit /\ ~LastHits[i].hit)
            /\ Dot(Minus(cPrev.Center, segs[i][1]), Normal(segs[i])) < -Rounding
                  => (BehindLine(i) /\ ~LastHits[i].hit)

\* C28 witness: a circle overlapping a segment from its back side moves towards it and
\* through it, the segment its only obstacle
C28_Witness ==
    /\ iter = 1 /\ Len(segs) = 1 /\ BehindLine(1)
    /\ Abs(CentreToLine(1).d) < cPrev.Radius
    /\ Dot(vPrev, Normal(segs[1])) > 0
    /\ ~mv.hit
    /\ Dot(Minus(c.Center, segs[1][1]), Normal(segs[1])) > 0
    /\ Along(segs[1], c.Center) > 0
    /\ Along(segs[1], c.Center) < Magnitude(Minus(segs[1][2], segs[1][1]))

\* one more iteration has run and returned a move
Iterated == iter' = iter + 1 /\ pc' # "panic"

\* C29 (as claimed): on every hit the new velocity's magnitude is at most |v| - d, the
\* magnitude of the velocity never increases from one iteration to the next, and the
\* travel distance of an iteration plus the magnitude it leaves is at most the
\* magnitude it started with (so that the distances applied so far plus the current
\* magnitude never exceed the initial magnitude).
C29_Budget ==
    [][Iterated =>
        /\ mv'.hit => Magnitude(v') <= Magnitude(v) - (mv'.distance + Threshold)
        /\ Magnitude(v') <= Magnitude(v)
        /\ mv'.distance + Magnitude(v') <= Magnitude(v)]_vars

\* C29 (amended): on every hit the new velocity's magnitude is at most |v| - d up to
\* rounding, the magnitude of the velocity does not increase by more than rounding, and
\* the travel distance of an iteration plus the magnitude it leaves is at most the
\* magnitude it started with.
C29_BudgetRounded ==
    [][Iterated =>
        /\ mv'.hit => Magnitude(v') <= Magnitude(v) - (mv'.distance + Threshold) + Rounding
        /\ Magnitude(v') <= Magnitude(v) + Rounding
        /\ mv'.distance + Magnitude(v') <= Magnitude(v)]_vars

\* C29 witness: a hit leaves a velocity longer by rounding than the one the iteration
\* was given, within the budget that the pull-back leaves
C29_Witness ==
    /\ iter >= 1 /\ mv.hit /\ mv.distance < 0
    /\ Magnitude(v) > Magnitude(vPrev)
    /\ mv.distance + Magnitude(v) <= Magnitude(vPrev)

\* C30: after any sequence of mouse and key events the obstacle list of the demo has
\* at least 4 segments, the first four being the window-boundary walls; the list
\* changes only by a mouse-up appending {click, cursor} and resetting click to
\* (-1, -1), or by 'd' removing the last segment while more than 4 exist.
C30_WallsKept ==
    /\ [](Len(mainSegs) >= 4 /\ SubSeq(mainSegs, 1, 4) = Walls)
    /\ [][\/ mainSegs' = mainSegs
          \/ mainSegs' = Append(mainSegs, <<click, cursor>>) /\ click' = NoClick
          \/ Len(mainSegs) > 4 /\ mainSegs' = SubSeq(mainSegs, 1, Len(mainSegs) - 1)]_vars

\* C30 witness: segments have been drawn after the walls, the last one from a click
\* to another place, and click has been reset
C30_Witness ==
    /\ Len(mainSegs) = 4 + MaxDrawn /\ click = NoClick
    /\ mainSegs[Len(mainSegs)][1] # NoClick
    /\ mainSegs[Len(mainSegs)][1] # mainSegs[Len(mainSegs)][2]
    /\ mainSegs[5] # mainSegs[Len(mainSegs)]

====
